---- MODULE Spec2Model ----
(***************************************************************************)
(* Super Python Coder (superpythoncoder.py): the generate -> extract ->    *)
(* execute -> feedback retry loop of main(), with code_from_openai() and   *)
(* run_generated_code().  Python strings are sequences of one-character    *)
(* strings, so that split, strip, lower, slicing and "in" are computed as  *)
(* Python computes them.                                                   *)
(***************************************************************************)
EXTENDS Integers, Sequences, FiniteSets, TLC

VARIABLES
    pc,         \* position in main(): "Compose" (loop head), "Requesting", "Extracting",
                \* "Executing", "Done" (main returned or SystemExit left it), "Raised"
    i,          \* iterations of `for _ in range(5)` started so far
    program,    \* the description returned by get_program()
    keySet,     \* whether OPENAI_API_KEY is in the environment
    errors,     \* main's list `errors`
    run_code,   \* main's `run_code`
    success,    \* main's `success`
    request,    \* the request text of the current iteration
    content,    \* code_from_openai's `content` (the raw response)
    file,       \* code_generate.py on disk
    outcome,    \* how the session ended: "unset" until it has
    genCalls,   \* calls of client.chat.completions.create made
    execCalls,  \* calls of run_generated_code made
    writes,     \* writes of code_generate.py in the current iteration
    attempts    \* per finished iteration: what it ended in and what it recorded

vars == <<pc, i, program, keySet, errors, run_code, success, request, content, file,
          outcome, genCalls, execCalls, writes, attempts>>

(***************************************************************************)
(* Program constants and literals                                          *)
(***************************************************************************)
\* range(5)
MaxAttempts == 5

\* content[:500]
DiagPrefixLen == 500

\* '@@D'
DELIM ==
    <<"@","@","D">>

\* '401'
PAT_401 ==
    <<"4","0","1">>

\* 'invalid_api_key'
PAT_INVALID_API_KEY ==
    <<"i","n","v","a","l","i","d","_","a","p","i","_","k","e","y">>

\* 'incorrect api key'
PAT_INCORRECT_API_KEY ==
    <<"i","n","c","o","r","r","e","c","t"," ","a","p","i"," ","k","e","y">>

\* 'Model did not wrap code with @@D. Got:\n'
EXTRACT_MSG ==
    <<"M","o","d","e","l"," ","d","i","d"," ","n","o","t"," ","w","r","a","p"," ","c","o",
      "d","e"," ","w","i","t","h"," ","@","@","D","."," ","G","o","t",":","\n">>

\* 'I ran your previous code and got an error.\n\nERROR:\n'
FEEDBACK_HEAD ==
    <<"I"," ","r","a","n"," ","y","o","u","r"," ","p","r","e","v","i","o","u","s"," ","c",
      "o","d","e"," ","a","n","d"," ","g","o","t"," ","a","n"," ","e","r","r","o","r",".",
      "\n","\n","E","R","R","O","R",":","\n">>

\* '\n\nCODE I RAN:\n'
FEEDBACK_MID ==
    <<"\n","\n","C","O","D","E"," ","I"," ","R","A","N",":","\n">>

\* '\n\nPlease return the FULL fixed code with assert tests.\nRemember: wrap code with @@D.'
FEEDBACK_TAIL ==
    <<"\n","\n","P","l","e","a","s","e"," ","r","e","t","u","r","n"," ","t","h","e"," ","F",
      "U","L","L"," ","f","i","x","e","d"," ","c","o","d","e"," ","w","i","t","h"," ","a",
      "s","s","e","r","t"," ","t","e","s","t","s",".","\n","R","e","m","e","m","b","e","r",
      ":"," ","w","r","a","p"," ","c","o","d","e"," ","w","i","t","h"," ","@","@","D",".">>

\* 'Write this program in Python: '
INITIAL_HEAD ==
    <<"W","r","i","t","e"," ","t","h","i","s"," ","p","r","o","g","r","a","m"," ","i","n",
      " ","P","y","t","h","o","n",":"," ">>

\* '\nInclude assert tests with 5 different inputs.\nWrap code with @@D.'
INITIAL_TAIL ==
    <<"\n","I","n","c","l","u","d","e"," ","a","s","s","e","r","t"," ","t","e","s","t","s",
      " ","w","i","t","h"," ","5"," ","d","i","f","f","e","r","e","n","t"," ","i","n","p",
      "u","t","s",".","\n","W","r","a","p"," ","c","o","d","e"," ","w","i","t","h"," ","@",
      "@","D",".">>

(***************************************************************************)
(* Python string operations                                                *)
(***************************************************************************)
Min(a, b) == IF a < b THEN a ELSE b

UpperLetters ==
    <<"A","B","C","D","E","F","G","H","I","J","K","L","M",
      "N","O","P","Q","R","S","T","U","V","W","X","Y","Z">>

LowerLetters ==
    <<"a","b","c","d","e","f","g","h","i","j","k","l","m",
      "n","o","p","q","r","s","t","u","v","w","x","y","z">>

LowerChar(c) ==
    IF \E k \in 1..26 : UpperLetters[k] = c
    THEN LowerLetters[CHOOSE k \in 1..26 : UpperLetters[k] = c]
    ELSE c

\* str.lower()
Lower(s) == [k \in 1..Len(s) |-> LowerChar(s[k])]

\* `p in s`
Contains(s, p) ==
    \/ p = <<>>
    \/ \E k \in 1..(Len(s) - Len(p) + 1) :
          /\ s[k] = p[1]
          /\ SubSeq(s, k, k + Len(p) - 1) = p

\* s.find(sep, start), 1-based; 0 when there is no occurrence
FindFrom(s, sep, start) ==
    LET at == {k \in start..(Len(s) - Len(sep) + 1) :
                  s[k] = sep[1] /\ SubSeq(s, k, k + Len(sep) - 1) = sep}
    IN  IF at = {} THEN 0 ELSE CHOOSE k \in at : \A m \in at : k <= m

RECURSIVE SplitFrom(_, _, _)
SplitFrom(s, sep, start) ==
    LET k == FindFrom(s, sep, start)
    IN  IF k = 0
        THEN <<SubSeq(s, start, Len(s))>>
        ELSE <<SubSeq(s, start, k - 1)>> \o SplitFrom(s, sep, k + Len(sep))

\* s.split(sep)
Split(s, sep) == SplitFrom(s, sep, 1)

IsSpace(c) == c \in {" ", "\n", "\t", "\r", "\f"}

\* s.strip()
Strip(s) ==
    LET keep == {k \in 1..Len(s) : ~IsSpace(s[k])}
    IN  IF keep = {} THEN <<>>
        ELSE SubSeq(s, CHOOSE k \in keep : \A m \in keep : k <= m,
                       CHOOSE k \in keep : \A m \in keep : k >= m)

\* s[:n]
Slice(s, n) == SubSeq(s, 1, Min(n, Len(s)))


(***************************************************************************)
(* Inputs: what the user, the environment, the OpenAI service and the      *)
(* generated code can supply                                               *)
(***************************************************************************)
\* How far the long response exceeds the 500 characters the diagnostic keeps.
LongExtra == 2

\* Longest raw response enumerated exhaustively for the extraction check.
MaxRawLen == 9

\* 'A program that checks if a number is a palindrome'
ProgramPalindrome ==
    <<"A"," ","p","r","o","g","r","a","m"," ","t","h","a","t"," ","c","h","e","c","k","s",
      " ","i","f"," ","a"," ","n","u","m","b","e","r"," ","i","s"," ","a"," ","p","a","l",
      "i","n","d","r","o","m","e">>

\* 'gcd of two numbers'
ProgramTyped ==
    <<"g","c","d"," ","o","f"," ","t","w","o"," ","n","u","m","b","e","r","s">>

\* 'Error code: 401 - Incorrect API key provided'
ErrAuthText ==
    <<"E","r","r","o","r"," ","c","o","d","e",":"," ","4","0","1"," ","-"," ","I","n","c",
      "o","r","r","e","c","t"," ","A","P","I"," ","k","e","y"," ","p","r","o","v","i","d",
      "e","d">>

\* 'Connection error.'
ErrConnText ==
    <<"C","o","n","n","e","c","t","i","o","n"," ","e","r","r","o","r",".">>

\* 'Error code: 429 - Rate limit reached: Used 199401'
ErrRateText ==
    <<"E","r","r","o","r"," ","c","o","d","e",":"," ","4","2","9"," ","-"," ","R","a","t",
      "e"," ","l","i","m","i","t"," ","r","e","a","c","h","e","d",":"," ","U","s","e","d",
      " ","1","9","9","4","0","1">>

\* 'Traceback (most recent call last):\nAssertionError\n'
TracebackText ==
    <<"T","r","a","c","e","b","a","c","k"," ","(","m","o","s","t"," ","r","e","c","e","n",
      "t"," ","c","a","l","l"," ","l","a","s","t",")",":","\n","A","s","s","e","r","t","i",
      "o","n","E","r","r","o","r","\n">>

\* 'x = 1'
RespPlain ==
    <<"x"," ","="," ","1">>

\* '@@D\nx = 1'
RespOneDelim ==
    <<"@","@","D","\n","x"," ","="," ","1">>

\* '@@D\nx = 1\n@@D'
RespWrapped ==
    <<"@","@","D","\n","x"," ","="," ","1","\n","@","@","D">>

\* 'ok @@D\n\tassert f(2)\n @@D tail @@D more'
RespThree ==
    <<"o","k"," ","@","@","D","\n","	","a","s","s","e","r","t"," ","f","(","2",")","\n"," ",
      "@","@","D"," ","t","a","i","l"," ","@","@","D"," ","m","o","r","e">>

\* 'pre@@D CODE @@D post'
RespExample ==
    <<"p","r","e","@","@","D"," ","C","O","D","E"," ","@","@","D"," ","p","o","s","t">>

\* 'print(0)'
OldArtifact ==
    <<"p","r","i","n","t","(","0",")">>

Programs == {ProgramPalindrome, ProgramTyped}

\* Exceptions client.chat.completions.create can raise.  `auth` is whether the
\* service rejected the credentials (HTTP 401, openai.AuthenticationError, whose
\* text the library starts with "Error code: 401"); `text` is str(e).
ApiErrors ==
    { [auth |-> TRUE,  text |-> ErrAuthText],
      [auth |-> FALSE, text |-> ErrConnText],
      [auth |-> FALSE, text |-> ErrRateText] }

\* A response without the markers, longer than the diagnostic's 500 characters.
RespLong == [k \in 1..(DiagPrefixLen + LongExtra) |-> "x"]

\* resp.choices[0].message.content: None, or a text.
Responses ==
    { [none |-> TRUE, body |-> <<>>] } \cup
    { [none |-> FALSE, body |-> b] :
        b \in {<<>>, RespOneDelim, RespWrapped, RespThree, RespLong} }

\* What exec(compiled, exec_globals) can do: return, raise an Exception (an
\* AssertionError, a SyntaxError from compile, ...), or raise a BaseException that
\* is no Exception (SystemExit from sys.exit() or unittest.main(), KeyboardInterrupt).
ExecOutcomes == {"returns", "Exception", "BaseException"}

\* traceback.format_exc() of a raised Exception
Tracebacks == {TracebackText}

ExtractAlphabet == {"@", "D", " "}

RawInputs ==
    UNION {[1..n -> ExtractAlphabet] : n \in 0..MaxRawLen}
        \cup {RespExample, RespThree, RespWrapped, RespOneDelim, RespPlain}

\* code_generate.py left by an earlier session, or no such file
NoFile == [exists |-> FALSE, text |-> <<>>, black |-> FALSE]

InitialFiles == {NoFile, [exists |-> TRUE, text |-> OldArtifact, black |-> TRUE]}

(***************************************************************************)
(* code_from_openai, run_generated_code and the pieces of main             *)
(***************************************************************************)
\* The check reduced to the error code "invalid_api_key" alone.
IsInvalidKeyCodeOnly(text) == Contains(Lower(text), PAT_INVALID_API_KEY)

\* "401" in msg or "invalid_api_key" in msg or "incorrect api key" in msg
IsInvalidKey(text) ==
    LET msg == Lower(text)
    IN  \/ Contains(msg, PAT_401)
        \/ Contains(msg, PAT_INVALID_API_KEY)
        \/ Contains(msg, PAT_INCORRECT_API_KEY)

\* resp.choices[0].message.content or ""
ContentOf(resp) == IF resp.none THEN <<>> ELSE resp.body

\* content[:500] inside the ValueError's message
DiagSlice(c) == Slice(c, DiagPrefixLen)

\* parts[-2] in place of parts[1].
CodeSegmentBeforeLast(parts) == Strip(parts[Len(parts) - 1])

\* parts[1].strip()
CodeSegment(parts) == Strip(parts[2])

\* len(parts) < 2 in place of len(parts) < 3.
ExtractCodeTwoParts(c) ==
    LET parts == Split(c, DELIM)
    IN  IF Len(parts) < 2
        THEN [ok |-> FALSE, text |-> EXTRACT_MSG \o DiagSlice(c)]
        ELSE [ok |-> TRUE, text |-> CodeSegment(parts)]

\* The end of code_from_openai: the code between the markers, or the ValueError.
ExtractCode(c) ==
    LET parts == Split(c, DELIM)
    IN  IF Len(parts) < 3
        THEN [ok |-> FALSE, text |-> EXTRACT_MSG \o DiagSlice(c)]
        ELSE [ok |-> TRUE, text |-> CodeSegment(parts)]

\* errors[-1][:500] in place of errors[-1].
LastErrorTruncated(errs) == Slice(errs[Len(errs)], DiagPrefixLen)

\* errors[-1]
LastError(errs) == errs[Len(errs)]

\* `if run_code:` in place of `if errors:`.
ComposeRequestIfCode(errs, code, prog) ==
    IF code # <<>>
    THEN FEEDBACK_HEAD \o LastError(errs) \o FEEDBACK_MID \o code \o FEEDBACK_TAIL
    ELSE INITIAL_HEAD \o prog \o INITIAL_TAIL

\* The request of one iteration: feedback when `errors` is non-empty.
ComposeRequest(errs, code, prog) ==
    IF errs # <<>>
    THEN FEEDBACK_HEAD \o LastError(errs) \o FEEDBACK_MID \o code \o FEEDBACK_TAIL
    ELSE INITIAL_HEAD \o prog \o INITIAL_TAIL

\* One iteration too many.
LoopHasNextOffByOne(n) == n <= MaxAttempts

\* for _ in range(5): whether another iteration starts
LoopHasNext(n) == n < MaxAttempts

\* The `break` left out: the loop goes on after a success.
AfterSuccessContinue == "Compose"

\* `break` after success = True
AfterSuccess == "Done"

\* `continue` replaced by another request within the same iteration.
AfterFailureRetrySame == "Requesting"

\* `continue` / the end of the loop body after a failed attempt
AfterFailure == "Compose"

\* os.remove left out.
RemovedNot(f) == f

\* os.remove(file_name), FileNotFoundError ignored
Removed(f) == NoFile

\* open(file_name, "w").write(text)
Written(text, formatted) == [exists |-> TRUE, text |-> text, black |-> formatted]

\* The write at lines 176-178 left out.
WriteRawSkipped(f, w, code) == [file |-> f, writes |-> w]

\* Lines 176-178: the extracted code is written to code_generate.py.
WriteRaw(f, w, code) == [file |-> Written(code, FALSE), writes |-> w + 1]

\* Lines 183-190: the code as formatted by Black (or as it is, on NothingChanged)
\* is written to code_generate.py.
WriteFormatted(f, w, code) == [file |-> Written(code, TRUE), writes |-> w + 1]

\* What one finished iteration did.
Entry(stage, gen, exec, diag, coded, code, w) ==
    [stage |-> stage, gen |-> gen, exec |-> exec, diag |-> diag,
     coded |-> coded, code |-> code, writes |-> w]

Init ==
    /\ pc = "Compose"
    /\ i = 0
    /\ program \in Programs
    /\ keySet \in BOOLEAN
    /\ errors = <<>>
    /\ run_code = <<>>
    /\ success = FALSE
    /\ request = <<>>
    /\ content = <<>>
    /\ file \in InitialFiles
    /\ outcome = "unset"
    /\ genCalls = 0
    /\ execCalls = 0
    /\ writes = 0
    /\ attempts = <<>>

\* Lines 147-163: the loop starts an iteration and builds its request.
Compose ==
    /\ pc = "Compose"
    /\ LoopHasNext(i)
    /\ i' = i + 1
    /\ request' = ComposeRequest(errors, run_code, program)
    /\ writes' = 0
    /\ pc' = "Requesting"
    /\ UNCHANGED <<program, keySet, errors, run_code, success, content, file,
                   outcome, genCalls, execCalls, attempts>>

\* Lines 206-207: the loop ran out without success.
Exhausted ==
    /\ pc = "Compose"
    /\ ~LoopHasNext(i)
    /\ outcome' = IF ~success THEN "ExhaustedFailure" ELSE outcome
    /\ pc' = "Done"
    /\ UNCHANGED <<i, program, keySet, errors, run_code, success, request, content,
                   file, genCalls, execCalls, writes, attempts>>

\* Lines 65-67, 79: get_client() finds no OPENAI_API_KEY and raises SystemExit,
\* which main re-raises (lines 167-168).
GenerateNoKey ==
    /\ pc = "Requesting"
    /\ ~keySet
    /\ outcome' = "FatalAbort"
    /\ pc' = "Done"
    /\ attempts' = Append(attempts,
                          Entry("Fatal", "nokey", "none", <<>>, FALSE, <<>>, writes))
    /\ UNCHANGED <<i, program, keySet, errors, run_code, success, request, content,
                   file, genCalls, execCalls, writes>>

\* Lines 82-102 and 167-172: the API call raises e.  An invalid-key text ends the
\* session by SystemExit; any other exception is appended to errors and the loop
\* continues.
GenerateError ==
    /\ pc = "Requesting"
    /\ keySet
    /\ \E e \in ApiErrors :
          /\ genCalls' = genCalls + 1
          /\ IF IsInvalidKey(e.text)
             THEN /\ outcome' = "FatalAbort"
                  /\ pc' = "Done"
                  /\ attempts' = Append(attempts,
                        Entry("Fatal", IF e.auth THEN "autherror" ELSE "othererror",
                              "none", e.text, FALSE, <<>>, writes))
                  /\ UNCHANGED errors
             ELSE /\ errors' = Append(errors, e.text)
                  /\ pc' = AfterFailure
                  /\ attempts' = Append(attempts,
                        Entry("GenerationFailure",
                              IF e.auth THEN "autherror" ELSE "othererror",
                              "none", e.text, FALSE, <<>>, writes))
                  /\ UNCHANGED outcome
    /\ UNCHANGED <<i, program, keySet, run_code, success, request, content, file,
                   execCalls, writes>>

\* Lines 82-89, 104: the API call returns a response.
GenerateResponse ==
    /\ pc = "Requesting"
    /\ keySet
    /\ \E resp \in Responses : content' = ContentOf(resp)
    /\ genCalls' = genCalls + 1
    /\ pc' = "Extracting"
    /\ UNCHANGED <<i, program, keySet, errors, run_code, success, request, file,
                   outcome, execCalls, writes, attempts>>

\* Lines 105-108 and 166-178: the code is cut out of the response and written to
\* code_generate.py, or the ValueError is appended to errors.
Extract ==
    /\ pc = "Extracting"
    /\ LET r == ExtractCode(content)
       IN  IF r.ok
           THEN /\ run_code' = r.text
                /\ file' = WriteRaw(file, writes, r.text).file
                /\ writes' = WriteRaw(file, writes, r.text).writes
                /\ pc' = "Executing"
                /\ UNCHANGED <<errors, attempts>>
           ELSE /\ errors' = Append(errors, r.text)
                /\ pc' = AfterFailure
                /\ attempts' = Append(attempts,
                      Entry("ExtractionFailure", "response", "none", r.text,
                            FALSE, <<>>, writes))
                /\ UNCHANGED <<run_code, file, writes>>
    /\ UNCHANGED <<i, program, keySet, success, request, content, outcome,
                   genCalls, execCalls>>

\* Lines 119-133 and 180-197: the code runs without raising; it is formatted with
\* Black, written again, and the loop is left.
ExecuteOk ==
    /\ pc = "Executing"
    /\ execCalls' = execCalls + 1
    /\ file' = WriteFormatted(file, writes, run_code).file
    /\ writes' = WriteFormatted(file, writes, run_code).writes
    /\ success' = TRUE
    /\ outcome' = "Success"
    /\ pc' = AfterSuccess
    /\ attempts' = Append(attempts,
                          Entry("Success", "response", "returns", <<>>, TRUE,
                                run_code, WriteFormatted(file, writes, run_code).writes))
    /\ UNCHANGED <<i, program, keySet, errors, run_code, request, content, genCalls>>

\* Lines 119-133 and 198-204: the code raises an Exception; its traceback is
\* appended to errors and code_generate.py is removed.
ExecuteFails ==
    /\ pc = "Executing"
    /\ execCalls' = execCalls + 1
    /\ \E err \in Tracebacks :
          /\ errors' = Append(errors, err)
          /\ attempts' = Append(attempts,
                                Entry("ExecutionFailure", "response", "Exception", err,
                                      TRUE, run_code, writes))
    /\ file' = Removed(file)
    /\ pc' = AfterFailure
    /\ UNCHANGED <<i, program, keySet, run_code, success, request, content, outcome,
                   genCalls, writes>>

\* Lines 129-133: `except Exception` does not catch a BaseException raised by the
\* generated code; it leaves run_generated_code and main.
ExecuteRaises ==
    /\ pc = "Executing"
    /\ execCalls' = execCalls + 1
    /\ pc' = "Raised"
    /\ attempts' = Append(attempts,
                          Entry("Raised", "response", "BaseException", <<>>, TRUE,
                                run_code, writes))
    /\ UNCHANGED <<i, program, keySet, errors, run_code, success, request, content,
                   file, outcome, genCalls, writes>>

Next ==
    \/ Compose
    \/ Exhausted
    \/ GenerateNoKey
    \/ GenerateError
    \/ GenerateResponse
    \/ Extract
    \/ ExecuteOk
    \/ ExecuteFails
    \/ ExecuteRaises

Spec == Init /\ [][Next]_vars

\* The first iteration of a session, at the point where the service has returned
\* `content`.
InitExtract ==
    /\ pc = "Extracting"
    /\ i = 1
    /\ program = ProgramTyped
    /\ keySet = TRUE
    /\ errors = <<>>
    /\ run_code = <<>>
    /\ success = FALSE
    /\ request = ComposeRequest(<<>>, <<>>, ProgramTyped)
    /\ content \in RawInputs
    /\ file = NoFile
    /\ outcome = "unset"
    /\ genCalls = 1
    /\ execCalls = 0
    /\ writes = 0
    /\ attempts = <<>>

NextExtract == Extract

SpecExtract == InitExtract /\ [][NextExtract]_vars

\* main is sequential: while the API call and the run of the generated code
\* come back, the next statement is executed.
LiveSpec == Init /\ [][Next]_vars /\ WF_vars(Next)

(***************************************************************************)
(* Properties                                                              *)
(***************************************************************************)
Ended == pc \in {"Done", "Raised"}

NumAttempts == Len(attempts)

\* C1: one session performs at most maxAttempts = 5 request/extract/execute
\* cycles: never more than 5 generation calls, never more than 5 executions,
\* never more than 5 iterations.
C1_AtMostMaxAttemptsCycles ==
    /\ genCalls <= MaxAttempts
    /\ execCalls <= MaxAttempts
    /\ i <= MaxAttempts
    /\ NumAttempts <= MaxAttempts

C1_FiveCyclesDone ==
    /\ pc = "Done"
    /\ genCalls = MaxAttempts
    /\ execCalls = MaxAttempts

\* C2: a generation call that fails with an authentication/credential error ends
\* the session in FatalAbort in that same step, whatever budget remains: that
\* attempt extracts, writes and executes nothing, the error is not appended to
\* errors, and it is the session's last attempt and last generation call.
C2_AuthFailureIsFatal ==
    \A k \in 1..NumAttempts :
        attempts[k].gen \in {"autherror", "nokey"} =>
            /\ k = NumAttempts
            /\ attempts[k].stage = "Fatal"
            /\ outcome = "FatalAbort"
            /\ pc = "Done"
            /\ ~attempts[k].coded
            /\ attempts[k].exec = "none"
            /\ attempts[k].writes = 0
            /\ Len(errors) = k - 1
            /\ i = k
            /\ genCalls <= k
            /\ execCalls <= k - 1

C2_FatalWithBudgetLeft ==
    /\ outcome = "FatalAbort"
    /\ NumAttempts = 3
    /\ attempts[3].gen = "autherror"
    /\ execCalls = 2
    /\ Len(errors) = 2

\* C3: every generation-service error that is not an authentication/credential
\* error is retryable: its text is appended to errors and the loop continues;
\* the session reaches FatalAbort only on an authentication/credential error.
C3_OtherErrorsAreRetryable ==
    /\ \A k \in 1..NumAttempts :
          attempts[k].gen = "othererror" =>
              /\ attempts[k].stage = "GenerationFailure"
              /\ Len(errors) >= k
              /\ errors[k] = attempts[k].diag
    /\ outcome = "FatalAbort" =>
          attempts[NumAttempts].gen \in {"autherror", "nokey"}

\* C4: for every attempt N > 1, whatever stage failed in attempt N-1, the request
\* of attempt N contains, whole, the diagnostic attempt N-1 appended to errors.
C4_RequestCarriesLastDiagnostic ==
    (i >= 2 /\ pc # "Compose") =>
        /\ NumAttempts >= i - 1
        /\ errors[i - 1] = attempts[i - 1].diag
        /\ Contains(request, attempts[i - 1].diag)

C4_RequestAfterEachKindOfFailure ==
    /\ pc = "Requesting"
    /\ i = 4
    /\ attempts[1].stage = "GenerationFailure"
    /\ attempts[2].stage = "ExtractionFailure"
    /\ Len(attempts[2].diag) > DiagPrefixLen
    /\ attempts[3].stage = "ExecutionFailure"
    /\ Contains(request, TracebackText)

C6_SuccessAtAttemptK_HistoryK ==
    \A k \in 1..NumAttempts :
        attempts[k].exec = "returns" =>
            /\ k = NumAttempts
            /\ outcome = "Success"
            /\ pc = "Done"
            /\ i = k
            /\ genCalls = k
            /\ execCalls <= k
            /\ Len(errors) = k
            /\ file.exists
            /\ file.text = attempts[k].code

\* C6, amended: as stated, but with k-1 entries in errors (the diagnostics of the
\* k-1 failed attempts; the successful attempt appends none).
C6_SuccessAtAttemptK ==
    \A k \in 1..NumAttempts :
        attempts[k].exec = "returns" =>
            /\ k = NumAttempts
            /\ k \in 1..MaxAttempts
            /\ \A m \in 1..(k - 1) :
                  attempts[m].stage \in
                      {"GenerationFailure", "ExtractionFailure", "ExecutionFailure"}
            /\ outcome = "Success"
            /\ success
            /\ pc = "Done"
            /\ i = k
            /\ genCalls = k
            /\ execCalls <= k
            /\ Len(errors) = k - 1
            /\ file.exists
            /\ file.text = ExtractCode(content).text
            /\ file.text = attempts[k].code

C6_SuccessAtThirdAttempt ==
    /\ outcome = "Success"
    /\ NumAttempts = 3
    /\ attempts[3].exec = "returns"
    /\ Len(errors) = 2
    /\ file.text = run_code

\* C7: whenever the run of the extracted code raises an error of any kind, the
\* attempt is an execution failure with a non-empty diagnostic appended to
\* errors, and the loop goes on (or ends in ExhaustedFailure); the raised error
\* never ends the session in any other way.
C7_AnyRaisedErrorIsExecutionFailure ==
    /\ pc # "Raised"
    /\ \A k \in 1..NumAttempts :
          attempts[k].exec \in {"Exception", "BaseException"} =>
              /\ attempts[k].stage = "ExecutionFailure"
              /\ attempts[k].diag # <<>>
              /\ Len(errors) >= k
              /\ errors[k] = attempts[k].diag

\* Where the marker starts in a raw response.
Occurrences(s) == {k \in 1..(Len(s) - 2) : s[k] = "@" /\ s[k + 1] = "@" /\ s[k + 2] = "D"}

\* t is seg without its leading and trailing whitespace.
IsTrimOf(t, seg) ==
    /\ t # <<>> => ~IsSpace(t[1]) /\ ~IsSpace(t[Len(t)])
    /\ \E a \in 0..Len(seg) : \E b \in a..Len(seg) :
          /\ t = SubSeq(seg, a + 1, b)
          /\ \A m \in 1..a : IsSpace(seg[m])
          /\ \A m \in (b + 1)..Len(seg) : IsSpace(seg[m])

\* The text strictly between the first and the second marker.
BetweenFirstTwo(s) ==
    LET first == CHOOSE k \in Occurrences(s) : \A m \in Occurrences(s) : k <= m
        rest == Occurrences(s) \ {first}
        second == CHOOSE k \in rest : \A m \in rest : k <= m
    IN  SubSeq(s, first + 3, second - 1)

\* C8: for every raw response with at least two occurrences of @@D, the extracted
\* code is the text strictly between the first and the second occurrence with
\* its leading and trailing whitespace trimmed, whatever precedes the first or
\* follows the second; "pre@@D CODE @@D post" yields "CODE".
C8_ExtractBetweenFirstTwoMarkers ==
    (pc # "Extracting" /\ Cardinality(Occurrences(content)) >= 2) =>
        /\ pc = "Executing"
        /\ IsTrimOf(run_code, BetweenFirstTwo(content))
        /\ content = RespExample => run_code = <<"C", "O", "D", "E">>

C8_ThreeMarkersExtracted ==
    /\ pc = "Executing"
    /\ content = RespThree
    /\ Cardinality(Occurrences(content)) = 3
    /\ run_code = <<"a", "s", "s", "e", "r", "t", " ", "f", "(", "2", ")">>

\* C9: a raw response with zero or one occurrence of @@D (an empty or missing body
\* included) makes the attempt an extraction failure: the diagnostic, which
\* contains the first 500 characters of the response (all of it when shorter),
\* is appended to errors, the attempt is used up, and the attempt executes no
\* code and writes no file.
C9_MissingMarkersIsRetryable ==
    (/\ pc \in {"Compose", "Requesting", "Done"}
     /\ NumAttempts >= 1
     /\ attempts[NumAttempts].gen = "response"
     /\ Cardinality(Occurrences(content)) <= 1)
    =>
        LET a == attempts[NumAttempts]
        IN  /\ a.stage = "ExtractionFailure"
            /\ Contains(a.diag, SubSeq(content, 1, Min(DiagPrefixLen, Len(content))))
            /\ Len(content) <= DiagPrefixLen => Contains(a.diag, content)
            /\ Len(errors) = NumAttempts
            /\ errors[Len(errors)] = a.diag
            /\ outcome \in {"unset", "ExhaustedFailure"}
            /\ ~a.coded
            /\ a.exec = "none"
            /\ a.writes = 0

C9_LongResponseWithoutMarkers ==
    /\ pc = "Compose"
    /\ NumAttempts = 2
    /\ attempts[1].stage = "ExtractionFailure"
    /\ attempts[2].stage = "ExtractionFailure"
    /\ Len(content) > DiagPrefixLen
    /\ Len(errors[2]) = Len(EXTRACT_MSG) + DiagPrefixLen
    /\ execCalls = 0

\* C10: the outcome is one of Success, ExhaustedFailure, FatalAbort, is assigned
\* once and is terminal: the three exclude each other, and once one is reached
\* there is no further generation call, execution, append to errors, or write or
\* removal of code_generate.py.
C10_OutcomeAssignedOnceAndTerminal ==
    /\ [](outcome \in {"unset", "Success", "ExhaustedFailure", "FatalAbort"})
    /\ []((outcome = "Success") <=> success)
    /\ [](outcome = "ExhaustedFailure" => ~success /\ i = MaxAttempts)
    /\ [][outcome # "unset" =>
            UNCHANGED <<outcome, genCalls, execCalls, errors, file, success, i>>]_vars
    /\ [][outcome' # outcome => outcome = "unset"]_vars

C10_SuccessWithBudgetLeft ==
    /\ pc = "Done"
    /\ outcome = "Success"
    /\ i < MaxAttempts
    /\ genCalls = i

InIteration == pc \in {"Requesting", "Extracting", "Executing"}

\* C11: before a terminal state is reached, the length of errors equals the number
\* of completed attempts, and each iteration advances the attempt counter by
\* exactly one, whether it failed in generation, in extraction or in execution.
C11_HistoryLengthIsAttemptCounter ==
    ~Ended =>
        /\ Len(errors) = NumAttempts
        /\ pc = "Compose" => i = Len(errors)
        /\ InIteration => i = Len(errors) + 1
        /\ \A k \in 1..NumAttempts :
              attempts[k].stage \in
                  {"GenerationFailure", "ExtractionFailure", "ExecutionFailure"}

C11_ThreeKindsOfFailureCounted ==
    /\ pc = "Compose"
    /\ i = 3
    /\ Len(errors) = 3
    /\ {attempts[k].stage : k \in 1..3} =
          {"GenerationFailure", "ExtractionFailure", "ExecutionFailure"}

\* C12: in every feedback request the code after "CODE I RAN" is the code
\* extracted in the immediately preceding attempt, the attempt whose diagnostic
\* the request carries, also when that attempt failed in generation or in
\* extraction.
C12_FeedbackCodeIsFromPrecedingAttempt ==
    (i >= 2 /\ pc # "Compose") =>
        /\ attempts[i - 1].coded
        /\ request = FEEDBACK_HEAD \o attempts[i - 1].diag \o FEEDBACK_MID
                        \o attempts[i - 1].code \o FEEDBACK_TAIL

RECURSIVE LastCodeBefore(_)
\* The code most recently extracted in attempts 1..n; empty when there is none.
LastCodeBefore(n) ==
    IF n = 0 THEN <<>>
    ELSE IF attempts[n].coded THEN attempts[n].code
    ELSE LastCodeBefore(n - 1)

\* C13: the request of an attempt is the initial request (with the description)
\* exactly when errors is empty at that moment, which is exactly in the first
\* attempt; every later attempt's request is the feedback request, built from
\* the last diagnostic and the last code only.
C13_InitialRequestOnlyFirst ==
    (i >= 1 /\ pc # "Compose") =>
        /\ (request = INITIAL_HEAD \o program \o INITIAL_TAIL) <=> (i = 1)
        /\ (i = 1) <=> (NumAttempts = 0 \/ (NumAttempts = 1 /\ ~InIteration))
        /\ i = 1 => Len(errors) <= 1
        /\ i > 1 =>
              /\ Len(errors) >= i - 1
              /\ request = FEEDBACK_HEAD \o errors[i - 1] \o FEEDBACK_MID
                              \o LastCodeBefore(i - 1) \o FEEDBACK_TAIL
              /\ ~Contains(request, program)

C13_FeedbackAfterGenerationFailure ==
    /\ pc = "Requesting"
    /\ i = 2
    /\ attempts[1].stage = "GenerationFailure"
    /\ request = FEEDBACK_HEAD \o ErrConnText \o FEEDBACK_MID \o FEEDBACK_TAIL

\* C14 as stated: code_generate.py is written exactly once in every attempt,
\* whichever stage the attempt ends in.
C14_OneWritePerAttempt ==
    \A k \in 1..NumAttempts : attempts[k].writes = 1

\* C14, amended: code_generate.py is written only once code has been extracted:
\* not at all in an attempt that ends in a generation failure, a fatal abort or
\* an extraction failure, once (the extracted code) in an attempt whose
\* execution does not succeed, and twice (the extracted code, then the
\* formatted code) in an attempt that succeeds.
C14_WritesPerAttemptByStage ==
    \A k \in 1..NumAttempts :
        /\ attempts[k].stage \in {"Fatal", "GenerationFailure", "ExtractionFailure"}
              => attempts[k].writes = 0
        /\ attempts[k].stage \in {"ExecutionFailure", "Raised"}
              => attempts[k].writes = 1
        /\ attempts[k].stage = "Success" => attempts[k].writes = 2

C14_NoWriteThenTwoWrites ==
    /\ outcome = "Success"
    /\ NumAttempts = 3
    /\ attempts[1].stage = "ExtractionFailure" /\ attempts[1].writes = 0
    /\ attempts[2].stage = "ExecutionFailure" /\ attempts[2].writes = 1
    /\ attempts[3].writes = 2
    /\ file.black

\* C15: whenever a session ends without Success, in whatever way, no
\* code_generate.py written during that session is left on disk.
C15_NoArtifactLeftWithoutSuccess ==
    (Ended /\ outcome # "Success") => ~(file.exists /\ file \notin InitialFiles)

\* C16: errors is append-only and bounded: every step leaves it unchanged or adds
\* one entry at its end, at most one entry is added per attempt, and its length
\* never exceeds maxAttempts = 5.
C16_HistoryAppendOnlyBounded ==
    /\ [](Len(errors) <= MaxAttempts /\ Len(errors) <= i)
    /\ [][\/ errors' = errors
          \/ /\ Len(errors') = Len(errors) + 1
             /\ SubSeq(errors', 1, Len(errors)) = errors
             /\ InIteration
             /\ pc' = "Compose"]_vars

C16_FullHistory ==
    /\ Len(errors) = MaxAttempts
    /\ errors[1] = ErrConnText
    /\ errors[MaxAttempts] = TracebackText
    /\ Len(errors[2]) > DiagPrefixLen

\* C17: provided every generation call and every run of generated code comes
\* back, every session eventually reaches Success, ExhaustedFailure or
\* FatalAbort; a session without success or fatal error reaches
\* ExhaustedFailure once the attempt counter is 5.  Every step of a session
\* moves forward in the loop and the loop is bounded (C1), so under LiveSpec
\* this is: a session that can take no further step has one of the three
\* outcomes, and has ExhaustedFailure after 5 failed attempts.
C17_EverySessionReachesAnOutcome ==
    /\ ~ENABLED Next => outcome \in {"Success", "ExhaustedFailure", "FatalAbort"}
    /\ (~ENABLED Next /\ Len(errors) = MaxAttempts) => outcome = "ExhaustedFailure"

====
